---- MODULE Spec2Model ----
(***************************************************************************)
(* OmniRoute route optimizer: VRPSolver.solve and _extract_solution,       *)
(* calculate_distance_matrix and the /optimize endpoint that calls them.   *)
(*                                                                         *)
(* solve registers a distance dimension, an optional capacity dimension,   *)
(* an optional time dimension and one disjunction per non-depot location   *)
(* on an OR-Tools routing model, runs the search, and converts the         *)
(* assignment it gets back (or the absence of one) into a VRPSolution.     *)
(* The dimensions and the extraction are modelled from vrp_solver.py; the  *)
(* search engine itself (construction, local search, deadline) is not in   *)
(* the repository and is modelled from sections 4.5 and 4.6 of the spec.   *)
(*                                                                         *)
(* Python indices are kept: locations is a function on 0..n-1 with the     *)
(* depot at 0.  vehicles is a sequence (vehicle_idx + 1).                  *)
(***************************************************************************)
EXTENDS Integers, Sequences, FiniteSets, TLC

VARIABLES locations, vehicles, distance_matrix, time_matrix, config,
          pc, first, cur, best, solution, clock, result,
          entry, request

vars == <<locations, vehicles, distance_matrix, time_matrix, config,
          pc, first, cur, best, solution, clock, result, entry, request>>

inputs == <<locations, vehicles, distance_matrix, time_matrix, config>>

\* Which function the caller invoked ("solve", "optimize_routes" or
\* "calculate_distance_matrix") and, for the endpoint, the request body.
call == <<entry, request>>

\* Python's None in an Optional[int] field (the time windows the model draws
\* are non-negative), and the result before solve returns.
None == -1

\* A time matrix that is not passed (None, falsy like the empty list).
NoMatrix == <<>>

\* The falsy value SolveWithParameters returns when it has no assignment.
NoAssignment == <<>>

\* No request body: solve or calculate_distance_matrix is called directly.
NoRequest == <<>>

(***************************************************************************)
(* Bounds of the model.                                                    *)
(***************************************************************************)
\* Largest number of non-depot locations in an instance.
MaxStops == 2
\* Largest number of seconds one move evaluation of the search takes.
MaxMoveCost == 2
\* Largest number of previous fraud flags of a customer profile.
MaxFraudFlags == 3

(***************************************************************************)
(* Program constants.                                                      *)
(***************************************************************************)
\* routing.AddDimension(transit, 0, 100000, True, "Distance")
MaxDistance == 100000
\* routing.AddDimension(time, 30, 480, False, "Time")
TimeSlack == 30
TimeHorizon == 480
\* penalty = 100000
penalty == 100000
\* total_time = distance // 50
MetersPerMinute == 50

(***************************************************************************)
(* Arithmetic helpers.                                                     *)
(***************************************************************************)
Abs(x) == IF x < 0 THEN -x ELSE x

Max2(a, b) == IF a >= b THEN a ELSE b

Min2(a, b) == IF a <= b THEN a ELSE b

\* Number of positions of sequence s holding x.
Count(s, x) == Cardinality({k \in 1..Len(s) : s[k] = x})

(***************************************************************************)
(* The instance: Location, Vehicle, VRPConfig.                             *)
(***************************************************************************)
Location(id, lat, demand, tws, twe, st) ==
    [id |-> id, latitude |-> lat, longitude |-> 0, demand |-> demand,
     time_window_start |-> tws, time_window_end |-> twe, service_time |-> st]

\* start_location and end_location are given as indices into locations.
Vehicle(id, capacity, start_location, end_location, max_distance) ==
    [id |-> id, capacity |-> capacity, start_location |-> start_location,
     end_location |-> end_location, max_distance |-> max_distance]

VRPConfig(limit, tw, cap) ==
    [time_limit_seconds |-> limit,
     first_solution_strategy |-> "PATH_CHEAPEST_ARC",
     local_search_metaheuristic |-> "GUIDED_LOCAL_SEARCH",
     use_time_windows |-> tw, use_capacity |-> cap]

\* Identifier of the location at index i and of the vehicle at index v.
LocId(i) == 100 + i

VehId(v) == 200 + v

\* Depots the model draws: <<demand, service_time>>.  Location.demand
\* defaults to 1 for every location, the depot included.
DepotProfiles == {<<0, 0>>, <<1, 1>>, <<3, 0>>}

\* Non-depot locations the model draws:
\* <<latitude, demand, time_window_start, time_window_end, service_time>>.
\* Locations lie on one meridian; a latitude unit is one meter of distance.
StopProfiles ==
    << <<2, 1, None, None, 0>>,         \* near, light, no window
       <<1, 3, None, None, 0>>,         \* heavy
       <<60000, 1, None, None, 0>>,     \* out of range of the distance dimension
       <<-2, 1, 2, 2, 0>>,              \* early window
       <<2, 1, 4, 5, 1>> >>             \* late window

\* Fleets the model draws: <<capacity, max_distance, start_location,
\* end_location>> of the vehicles, in order.
Fleets == {<< <<2, None, 0, None>> >>, << <<3, 3, 0, 0>> >>,
           << <<2, None, 0, None>>, <<2, None, 0, None>> >>,
           << <<2, 3, 0, None>>, <<3, None, 1, 1>> >>}

\* <<use_time_windows, use_capacity, time matrix passed>>.  optimize_routes
\* passes no time matrix and leaves use_capacity at its default.
CallProfiles == {<<TRUE, TRUE, FALSE>>, <<FALSE, TRUE, FALSE>>,
                 <<TRUE, TRUE, TRUE>>, <<TRUE, FALSE, TRUE>>}

TimeLimits == {1, 2}

\* Seconds one search iteration (one move evaluation) may take.
MoveCosts == 1..MaxMoveCost

NumLocations == Cardinality(DOMAIN locations)

NumVehicles == Len(vehicles)

\* range(1, num_locations)
Stops == 1..(NumLocations - 1)

MakeLocations(dp, ps) ==
    [i \in 0..Len(ps) |->
        IF i = 0 THEN Location(LocId(0), 0, dp[1], None, None, dp[2])
        ELSE LET p == StopProfiles[ps[i]]
             IN  Location(LocId(i), p[1], p[2], p[3], p[4], p[5])]

MakeVehicles(caps) ==
    [v \in 1..Len(caps) |->
        Vehicle(VehId(v), caps[v][1], caps[v][3], caps[v][4], caps[v][2])]

\* The matrix the caller hands to solve: meters along the meridian.
MeridianMatrix(locs) ==
    [i \in DOMAIN locs |-> [j \in DOMAIN locs |->
        Abs(locs[i].latitude - locs[j].latitude)]]

(***************************************************************************)
(* Routes of the routing model.  An assignment gives every vehicle the     *)
(* sequence of non-depot nodes it visits between Start and End (both the   *)
(* depot, RoutingIndexManager(num_locations, num_vehicles, 0)).            *)
(***************************************************************************)
Path(route) == <<0>> \o route \o <<0>>

\* distance_callback summed along a vehicle's path.
RECURSIVE ArcSum(_, _)
ArcSum(path, k) ==
    IF k >= Len(path) THEN 0
    ELSE distance_matrix[path[k]][path[k + 1]] + ArcSum(path, k + 1)

RouteDistance(route) == ArcSum(Path(route), 1)

\* A Distance dimension with twice the capacity.
DistanceOK_Doubled(route) == RouteDistance(route) <= 2 * MaxDistance

\* The Distance dimension: no slack, cumul in [0, 100000], start at zero.
DistanceOK(route) == RouteDistance(route) <= MaxDistance

\* demand_callback: the demand of the node the vehicle leaves.
demand_callback_Depot(node) == locations[0].demand

demand_callback(node) == locations[node].demand

\* Cumul of the Capacity dimension on arriving at position k of the path:
\* the demands of the nodes left so far, the depot's included.
RECURSIVE CapacityCumul(_, _)
CapacityCumul(path, k) ==
    IF k <= 1 THEN 0
    ELSE CapacityCumul(path, k - 1) + demand_callback(path[k - 1])

\* The Capacity dimension: no slack, cumul in [0, capacity of the vehicle],
\* start at zero; registered only under use_capacity.
CapacityOK_Inverted(v, route) ==
    (~config.use_capacity) =>
        \A k \in 1..Len(Path(route)) :
            /\ CapacityCumul(Path(route), k) >= 0
            /\ CapacityCumul(Path(route), k) <= vehicles[v].capacity

CapacityOK(v, route) ==
    config.use_capacity =>
        \A k \in 1..Len(Path(route)) :
            /\ CapacityCumul(Path(route), k) >= 0
            /\ CapacityCumul(Path(route), k) <= vehicles[v].capacity

\* if self.config.use_time_windows and time_matrix
TimeDimensionActive == config.use_time_windows /\ time_matrix # NoMatrix

\* time_callback
time_callback(from, to) == time_matrix[from][to] + locations[from].service_time

\* SetRange is called only for a location that declares both ends.
HasRange(node) ==
    /\ locations[node].time_window_start # None
    /\ locations[node].time_window_end # None

\* The depot's Start and End cumuls of a vehicle keep the dimension's range.
RangeLo(path, k) ==
    IF k > 1 /\ k < Len(path) /\ HasRange(path[k])
    THEN Max2(0, locations[path[k]].time_window_start) ELSE 0

RangeHi(path, k) ==
    IF k > 1 /\ k < Len(path) /\ HasRange(path[k])
    THEN Min2(TimeHorizon, locations[path[k]].time_window_end) ELSE TimeHorizon

\* Smallest and largest Time cumul position k of the path can take:
\* cumul(k) = cumul(k-1) + transit + slack, 0 <= slack <= 30, cumul within
\* its range, the start cumul free.
RECURSIVE CumulLo(_, _)
CumulLo(path, k) ==
    IF k <= 1 THEN RangeLo(path, 1)
    ELSE Max2(CumulLo(path, k - 1) + time_callback(path[k - 1], path[k]),
              RangeLo(path, k))

RECURSIVE CumulHi(_, _)
CumulHi(path, k) ==
    IF k <= 1 THEN RangeHi(path, 1)
    ELSE Min2(CumulHi(path, k - 1) + time_callback(path[k - 1], path[k]) + TimeSlack,
              RangeHi(path, k))

TimeOK(route) ==
    TimeDimensionActive =>
        \A k \in 1..Len(Path(route)) :
            CumulLo(Path(route), k) <= CumulHi(Path(route), k)

\* An assignment the routing model accepts: every dimension holds on every
\* vehicle's path.
Feasible(routes) ==
    \A v \in 1..Len(routes) :
        DistanceOK(routes[v]) /\ CapacityOK(v, routes[v]) /\ TimeOK(routes[v])

\* Nodes on some vehicle's path, and the nodes left out (inactive).
Visited(routes) == UNION {{routes[v][k] : k \in 1..Len(routes[v])} : v \in 1..Len(routes)}

Dropped(routes) == Stops \ Visited(routes)

RECURSIVE SumRoutes(_, _)
SumRoutes(routes, v) ==
    IF v > Len(routes) THEN 0 ELSE RouteDistance(routes[v]) + SumRoutes(routes, v + 1)

\* A penalty that grows with the index of the dropped node.
Objective_IndexWeighted(routes) ==
    SumRoutes(routes, 1)
      + penalty * Cardinality({ik \in Dropped(routes) \X Stops : ik[2] <= ik[1]})

\* Arc costs of all vehicles plus the disjunction penalty of every dropped node.
Objective(routes) == SumRoutes(routes, 1) + penalty * Cardinality(Dropped(routes))

EmptyRoutes == [v \in 1..NumVehicles |-> <<>>]

(***************************************************************************)
(* The search engine behind routing.SolveWithParameters: construction by   *)
(* cheapest feasible insertion, then local search under the deadline.      *)
(***************************************************************************)
InsertAt(route, p, s) ==
    SubSeq(route, 1, p - 1) \o <<s>> \o SubSeq(route, p, Len(route))

RemoveAt(route, k) == SubSeq(route, 1, k - 1) \o SubSeq(route, k + 1, Len(route))

InsertStop(routes, s, v, p) == [routes EXCEPT ![v] = InsertAt(@, p, s)]

\* (stop, route, position) triples whose insertion keeps every dimension feasible.
Candidates(routes) ==
    {c \in [s : Dropped(routes), v : 1..Len(routes), p : 1..(MaxStops + 1)] :
        /\ c.p <= Len(routes[c.v]) + 1
        /\ Feasible(InsertStop(routes, c.s, c.v, c.p))}

\* Added arc cost of an insertion.
InsertionCost(routes, c) ==
    RouteDistance(InsertAt(routes[c.v], c.p, c.s)) - RouteDistance(routes[c.v])

\* Cheaper, then lowest stop index, lowest vehicle index, lowest position.
Precedes(routes, c, d) ==
    LET cc == InsertionCost(routes, c)
        cd == InsertionCost(routes, d)
    IN  \/ cc < cd
        \/ cc = cd /\ c.s < d.s
        \/ cc = cd /\ c.s = d.s /\ c.v < d.v
        \/ cc = cd /\ c.s = d.s /\ c.v = d.v /\ c.p < d.p

CheapestInsertion(routes) ==
    CHOOSE c \in Candidates(routes) :
        \A d \in Candidates(routes) : d = c \/ Precedes(routes, c, d)

\* Insert until no stop has a feasible insertion; what is left is dropped.
RECURSIVE Construct(_)
Construct(routes) ==
    IF Candidates(routes) = {} THEN routes
    ELSE LET c == CheapestInsertion(routes)
         IN  Construct(InsertStop(routes, c.s, c.v, c.p))

\* Positions <<v, k>> of the placed stops.
Placed(routes) ==
    UNION {{<<v, k>> : k \in 1..Len(routes[v])} : v \in 1..Len(routes)}

\* Relocate: one stop moves to another route or position.
Relocate(routes) ==
    UNION {
        LET s == routes[q[1]][q[2]]
            rest == [routes EXCEPT ![q[1]] = RemoveAt(@, q[2])]
        IN  UNION {{InsertStop(rest, s, v, p) : p \in 1..(Len(rest[v]) + 1)} :
                   v \in 1..Len(rest)}
        : q \in Placed(routes)}

\* Swap: two placed stops exchange their places.
Swap(routes) ==
    {[v \in 1..Len(routes) |-> [k \in 1..Len(routes[v]) |->
        IF <<v, k>> = qa THEN routes[qb[1]][qb[2]]
        ELSE IF <<v, k>> = qb THEN routes[qa[1]][qa[2]]
        ELSE routes[v][k]]] :
     qa \in Placed(routes), qb \in Placed(routes)}

\* 2-opt: a contiguous part of one route is reversed.
TwoOpt(routes) ==
    UNION {
        {[routes EXCEPT ![v] = [k \in 1..Len(routes[v]) |->
            IF k >= i /\ k <= j THEN routes[v][i + j - k] ELSE routes[v][k]]] :
         i \in 1..Len(routes[v]), j \in 1..Len(routes[v])}
        : v \in 1..Len(routes)}

\* Drop/insert exchange: a dropped stop takes the place of a placed one.
DropInsertExchange(routes) ==
    {[routes EXCEPT ![q[1]][q[2]] = d] :
     q \in Placed(routes), d \in Dropped(routes)}

\* Candidate moves that leave every modified route resource-feasible.
Neighbours(routes) ==
    {nb \in (Relocate(routes) \cup Swap(routes) \cup TwoOpt(routes)
             \cup DropInsertExchange(routes)) :
        nb # routes /\ Feasible(nb)}

\* The best feasible solution observed so far.
BestOf_Last(old, new) == new

\* The first solution is kept whatever the search finds.
BestOf_First(old, new) == old

BestOf(old, new) == IF Objective(new) < Objective(old) THEN new ELSE old

\* search_parameters.time_limit.seconds = self.config.time_limit_seconds
SearchTimeLimit_Default == 30

SearchTimeLimit == config.time_limit_seconds

\* The deadline check at an iteration boundary.
DeadlineNotElapsed == clock < SearchTimeLimit

(***************************************************************************)
(* VRPSolver._extract_solution and the no-solution branch of solve.        *)
(***************************************************************************)
Route(vehicle_id, stops, total_distance, total_time, total_load) ==
    [vehicle_id |-> vehicle_id, stops |-> stops, total_distance |-> total_distance,
     total_time |-> total_time, total_load |-> total_load]

VRPSolution(routes, total_distance, total_time, dropped_locations, computation_time_ms) ==
    [routes |-> routes, total_distance |-> total_distance, total_time |-> total_time,
     dropped_locations |-> dropped_locations,
     computation_time_ms |-> computation_time_ms]

\* Nodes the while loop sees before routing.IsEnd: the start, then the stops.
WalkNodes(route) == <<0>> \o route

\* Every node of the walk counts as a stop, the start included.
IsStopNode_Any(node) == node >= 0

IsStopNode(node) == node > 0

\* if node_index > 0: route_stops.append(locations[node_index])
RouteStops(route) == SelectSeq(WalkNodes(route), IsStopNode)

\* route_load += locations[node_index].demand
RECURSIVE RouteLoad(_)
RouteLoad(stops) ==
    IF stops = <<>> THEN 0 ELSE locations[Head(stops)].demand + RouteLoad(Tail(stops))

\* for vehicle_idx in range(len(vehicles)): ... if route_stops: routes.append(...)
RECURSIVE ExtractRoutes(_, _)
ExtractRoutes(routes, v) ==
    IF v > Len(vehicles) THEN <<>>
    ELSE LET route_stops == RouteStops(routes[v])
             route_distance == RouteDistance(routes[v])
         IN  (IF route_stops # <<>>
              THEN <<Route(vehicles[v].id, route_stops, route_distance,
                           route_distance \div MetersPerMinute, RouteLoad(route_stops))>>
              ELSE <<>>)
             \o ExtractRoutes(routes, v + 1)

\* visited.add(node_index) over every vehicle's walk.
WalkVisited(routes) ==
    UNION {{WalkNodes(routes[v])[k] : k \in 1..Len(WalkNodes(routes[v]))} :
           v \in 1..Len(vehicles)}

\* [locations[i].id for i in range(from, len(locations)) if i not in visited]
RECURSIVE IdsNotIn(_, _)
IdsNotIn(visited, i) ==
    IF i >= NumLocations THEN <<>>
    ELSE (IF i \notin visited THEN <<locations[i].id>> ELSE <<>>)
         \o IdsNotIn(visited, i + 1)

\* total_distance = route_distance instead of +=
SumDistances_Last(rs) ==
    IF rs = <<>> THEN 0 ELSE rs[Len(rs)].total_distance

RECURSIVE SumDistances(_)
SumDistances(rs) ==
    IF rs = <<>> THEN 0 ELSE Head(rs).total_distance + SumDistances(Tail(rs))

RECURSIVE SumTimes(_)
SumTimes(rs) ==
    IF rs = <<>> THEN 0 ELSE Head(rs).total_time + SumTimes(Tail(rs))

\* total_time as the sum of the routes' total_time.
ExtractSolution_SumsTimes(routes, computation_time) ==
    LET rs == ExtractRoutes(routes, 1)
    IN  VRPSolution(rs, SumDistances(rs), SumTimes(rs),
                    IdsNotIn(WalkVisited(routes), 1), computation_time)

ExtractSolution_SkipFirst(routes, computation_time) ==
    LET rs == ExtractRoutes(routes, 1)
    IN  VRPSolution(rs, SumDistances(rs), SumDistances(rs) \div MetersPerMinute,
                    IdsNotIn(WalkVisited(routes), 2), computation_time)

ExtractSolution(routes, computation_time) ==
    LET rs == ExtractRoutes(routes, 1)
    IN  VRPSolution(rs, SumDistances(rs), SumDistances(rs) \div MetersPerMinute,
                    IdsNotIn(WalkVisited(routes), 1), computation_time)

\* [loc.id for loc in locations[1:]]
NoSolutionResult_SkipFirst(computation_time) ==
    VRPSolution(<<>>, 0, 0, IdsNotIn({}, 2), computation_time)

NoSolutionResult(computation_time) ==
    VRPSolution(<<>>, 0, 0, IdsNotIn({}, 1), computation_time)

\* int((time.time() - start_time) * 1000)
ComputationTime == clock * 1000

(***************************************************************************)
(* The state machine of one call of solve.                                 *)
(***************************************************************************)
Init ==
    \E dp \in DepotProfiles, n \in 1..MaxStops, caps \in Fleets,
       cp \in CallProfiles, limit \in TimeLimits :
      \E ps \in [1..n -> 1..Len(StopProfiles)] :
        /\ \A k \in 1..(n - 1) : ps[k] <= ps[k + 1]
        /\ locations = MakeLocations(dp, ps)
        /\ vehicles = MakeVehicles(caps)
        /\ distance_matrix = MeridianMatrix(MakeLocations(dp, ps))
        /\ time_matrix = IF cp[3] THEN MeridianMatrix(MakeLocations(dp, ps)) ELSE NoMatrix
        /\ config = VRPConfig(limit, cp[1], cp[2])
        /\ pc = "start"
        /\ first = NoAssignment
        /\ cur = NoAssignment
        /\ best = NoAssignment
        /\ solution = NoAssignment
        /\ clock = 0
        /\ result = None
        /\ entry = "solve"
        /\ request = NoRequest

\* The model is built and the construction phase yields the first solution.
SolveConstruct ==
    /\ pc = "start"
    /\ Feasible(EmptyRoutes)
    /\ LET constructed == Construct(EmptyRoutes)
       IN  /\ cur' = constructed
           /\ first' = constructed
           /\ best' = constructed
    /\ pc' = "search"
    /\ UNCHANGED <<inputs, call, solution, clock, result>>

\* No assignment satisfies the dimensions: SolveWithParameters returns a
\* falsy value and solve returns the all-dropped VRPSolution.
SolveNoSolution ==
    /\ pc = "start"
    /\ ~Feasible(EmptyRoutes)
    /\ solution' = NoAssignment
    /\ result' = NoSolutionResult(ComputationTime)
    /\ pc' = "returned"
    /\ UNCHANGED <<inputs, call, first, cur, best, clock>>

\* One iteration applying a move that strictly reduces the objective.
LocalSearchImprove ==
    /\ pc = "search"
    /\ DeadlineNotElapsed
    /\ \E nb \in Neighbours(cur), d \in MoveCosts :
        /\ Objective(nb) < Objective(cur)
        /\ cur' = nb
        /\ best' = BestOf(best, nb)
        /\ clock' = clock + d
    /\ UNCHANGED <<inputs, call, pc, first, solution, result>>

\* One iteration in which the metaheuristic accepts a move that does not
\* reduce the objective.
MetaheuristicEscape ==
    /\ pc = "search"
    /\ DeadlineNotElapsed
    /\ \E nb \in Neighbours(cur), d \in MoveCosts :
        /\ Objective(nb) >= Objective(cur)
        /\ cur' = nb
        /\ best' = BestOf(best, nb)
        /\ clock' = clock + d
    /\ UNCHANGED <<inputs, call, pc, first, solution, result>>

LocalOptimum == \A nb \in Neighbours(cur) : Objective(nb) >= Objective(cur)

\* A return that stores the distance matrix as the caller's time matrix.
SolveReturn_DefaultsTimeMatrix ==
    /\ pc = "search"
    /\ (~DeadlineNotElapsed) \/ LocalOptimum
    /\ solution' = best
    /\ result' = ExtractSolution(best, ComputationTime)
    /\ pc' = "returned"
    /\ time_matrix' = distance_matrix
    /\ UNCHANGED <<locations, vehicles, distance_matrix, config, call,
                   first, cur, best, clock>>

\* The search stops at the deadline or at a local optimum; solve extracts
\* the assignment it returned.
SolveReturn ==
    /\ pc = "search"
    /\ (~DeadlineNotElapsed) \/ LocalOptimum
    /\ solution' = best
    /\ result' = ExtractSolution(best, ComputationTime)
    /\ pc' = "returned"
    /\ UNCHANGED <<inputs, call, first, cur, best, clock>>

Next ==
    \/ SolveConstruct
    \/ SolveNoSolution
    \/ LocalSearchImprove
    \/ MetaheuristicEscape
    \/ SolveReturn

Spec == Init /\ [][Next]_vars

(***************************************************************************)
(* calculate_distance_matrix and the /optimize endpoint.                   *)
(*                                                                         *)
(* The endpoint's locations lie on one meridian and give their latitude    *)
(* in thousandths of a meter of arc, so that the great-circle distance of  *)
(* two of them has a fraction for int() to act on.                         *)
(***************************************************************************)
\* For lon1 = lon2, a is sin(delta_phi / 2)^2, c is |delta_phi| and R * c is
\* the length of the arc between the two latitudes: |lat2 - lat1| / 1000
\* meters.  int(R * c) drops the fraction.
haversine_distance_Signed(lat1, lon1, lat2, lon2) == (lat2 - lat1) \div 1000

haversine_distance(lat1, lon1, lat2, lon2) == Abs(lat2 - lat1) \div 1000

\* matrix = [[0] * n for _ in range(n)], then every off-diagonal entry is
\* set.  There is no check on n: the empty list gives [] and one location
\* gives [[0]].
calculate_distance_matrix(locs) ==
    [i \in DOMAIN locs |-> [j \in DOMAIN locs |->
        IF i # j
        THEN haversine_distance(locs[i].latitude, locs[i].longitude,
                                locs[j].latitude, locs[j].longitude)
        ELSE 0]]

LocationRequest(id, lat, demand, tws, twe) ==
    [id |-> id, latitude |-> lat, longitude |-> 0, demand |-> demand,
     time_window_start |-> tws, time_window_end |-> twe, service_time |-> 10]

VehicleRequest(id, capacity) == [id |-> id, capacity |-> capacity]

OptimizeRequest(locs, vehs, limit, tw) ==
    [locations |-> locs, vehicles |-> vehs,
     time_limit_seconds |-> limit, use_time_windows |-> tw]

HTTPException(status_code, detail) ==
    [status_code |-> status_code, detail |-> detail]

\* Locations a request may list after the depot:
\* <<latitude, demand, time_window_start, time_window_end>>.
RequestProfiles ==
    << <<1500, 1, None, None>>,      \* 1.5 m north
       <<2700, 2, None, None>>,      \* 2.7 m north, heavy
       <<-1500, -1, None, None>>,    \* negative demand
       <<1500, 1, 5, 4>>,            \* earliest after latest
       <<15300, 2, None, None>> >>   \* 15.3 m north, heavy

\* Capacities of the vehicles a request may list.
RequestFleets == {<<>>, <<0>>, <<2>>, <<3, 3>>}

\* The first location of a request is the depot, with the default demand.
MakeRequestLocations(ps) ==
    [k \in 1..Len(ps) |->
        IF k = 1 THEN LocationRequest(LocId(0), 0, 1, None, None)
        ELSE LET p == RequestProfiles[ps[k]]
             IN  LocationRequest(LocId(k - 1), p[1], p[2], p[3], p[4])]

MakeRequestVehicles(caps) ==
    [v \in 1..Len(caps) |-> VehicleRequest(VehId(v), caps[v])]

\* locations = [Location(...) for loc in request.locations]
ConvertLocations(reqlocs) ==
    [i \in 0..(Len(reqlocs) - 1) |->
        LET loc == reqlocs[i + 1]
        IN  Location(loc.id, loc.latitude, loc.demand, loc.time_window_start,
                     loc.time_window_end, loc.service_time)]

\* vehicles = [Vehicle(id, capacity, start_location=locations[0]) ...]
ConvertVehicles(reqvehs) ==
    [v \in 1..Len(reqvehs) |->
        Vehicle(reqvehs[v].id, reqvehs[v].capacity, 0, None, None)]

RouteResponse(route) ==
    [vehicle_id |-> route.vehicle_id,
     stop_ids |-> [k \in 1..Len(route.stops) |-> locations[route.stops[k]].id],
     total_distance_meters |-> route.total_distance,
     total_time_minutes |-> route.total_time,
     total_load |-> route.total_load]

OptimizeResponse(sol) ==
    [routes |-> [k \in 1..Len(sol.routes) |-> RouteResponse(sol.routes[k])],
     total_distance_meters |-> sol.total_distance,
     total_time_minutes |-> sol.total_time,
     dropped_locations |-> sol.dropped_locations,
     computation_time_ms |-> sol.computation_time_ms]

InitEndpoint ==
    \E n \in 0..(MaxStops + 1), e \in {"optimize_routes", "calculate_distance_matrix"} :
      \E ps \in [1..n -> 1..Len(RequestProfiles)], caps \in RequestFleets,
         tw \in BOOLEAN, limit \in TimeLimits :
        /\ \A k \in 1..n : k = 1 => ps[k] = 1
        /\ \A k \in 2..(n - 1) : ps[k] <= ps[k + 1]
        /\ entry = e
        /\ IF e = "optimize_routes"
           THEN /\ request = OptimizeRequest(MakeRequestLocations(ps),
                                             MakeRequestVehicles(caps), limit, tw)
                /\ locations = <<>>
           ELSE /\ caps = <<>> /\ tw /\ limit = 1
                /\ request = NoRequest
                /\ locations = ConvertLocations(MakeRequestLocations(ps))
        /\ vehicles = <<>>
        /\ distance_matrix = NoMatrix
        /\ time_matrix = NoMatrix
        /\ config = VRPConfig(SearchTimeLimit_Default, TRUE, TRUE)
        /\ pc = "called"
        /\ first = NoAssignment
        /\ cur = NoAssignment
        /\ best = NoAssignment
        /\ solution = NoAssignment
        /\ clock = 0
        /\ result = None

\* A direct call of calculate_distance_matrix.
CalculateDistanceMatrix ==
    /\ entry = "calculate_distance_matrix"
    /\ pc = "called"
    /\ distance_matrix' = calculate_distance_matrix(locations)
    /\ pc' = "matrix_returned"
    /\ UNCHANGED <<locations, vehicles, time_matrix, config, call,
                   first, cur, best, solution, clock, result>>

\* optimize_routes raises HTTPException(400) on fewer than 2 locations or no
\* vehicle, before it converts anything.
OptimizeReject ==
    /\ entry = "optimize_routes"
    /\ pc = "called"
    /\ \/ /\ Len(request.locations) < 2
          /\ result' = HTTPException(400, "At least 2 locations required")
       \/ /\ Len(request.locations) >= 2
          /\ Len(request.vehicles) < 1
          /\ result' = HTTPException(400, "At least 1 vehicle required")
    /\ pc' = "raised"
    /\ UNCHANGED <<inputs, call, first, cur, best, solution, clock>>

\* optimize_routes converts the request, builds the distance matrix and the
\* config and calls solve without a time matrix.
OptimizeAccept ==
    /\ entry = "optimize_routes"
    /\ pc = "called"
    /\ Len(request.locations) >= 2
    /\ Len(request.vehicles) >= 1
    /\ locations' = ConvertLocations(request.locations)
    /\ vehicles' = ConvertVehicles(request.vehicles)
    /\ distance_matrix' = calculate_distance_matrix(ConvertLocations(request.locations))
    /\ time_matrix' = NoMatrix
    /\ config' = VRPConfig(request.time_limit_seconds, request.use_time_windows, TRUE)
    /\ pc' = "start"
    /\ UNCHANGED <<call, first, cur, best, solution, clock, result>>

\* optimize_routes converts the VRPSolution that solve returned.
OptimizeRespond ==
    /\ entry = "optimize_routes"
    /\ pc = "returned"
    /\ result' = OptimizeResponse(result)
    /\ pc' = "responded"
    /\ UNCHANGED <<inputs, call, first, cur, best, solution, clock>>

NextEndpoint ==
    \/ CalculateDistanceMatrix
    \/ OptimizeReject
    \/ OptimizeAccept
    \/ SolveConstruct
    \/ SolveNoSolution
    \/ LocalSearchImprove
    \/ MetaheuristicEscape
    \/ SolveReturn
    \/ OptimizeRespond

SpecEndpoint == InitEndpoint /\ [][NextEndpoint]_vars

(***************************************************************************)
(* Properties.                                                             *)
(***************************************************************************)
Returned == pc = "returned"

HasAssignment == solution # NoAssignment

\* The vehicle that drives a reported route.
VehicleOf(route) == CHOOSE v \in 1..NumVehicles : vehicles[v].id = route.vehicle_id

\* Times location index i appears in the stop lists of the reported routes.
RECURSIVE StopOccurrences(_, _)
StopOccurrences(rs, i) ==
    IF rs = <<>> THEN 0 ELSE Count(Head(rs).stops, i) + StopOccurrences(Tail(rs), i)

\* C1: in every result of solve, from either branch, every non-depot
\* location is in exactly one route's stop list exactly once or in
\* dropped_locations exactly once, never both and never neither.
C1_Partition ==
    Returned =>
        \A i \in Stops :
            StopOccurrences(result.routes, i)
                + Count(result.dropped_locations, locations[i].id) = 1

\* A result of the solution-found branch with a served stop and a dropped one.
C1_Witness ==
    /\ Returned
    /\ HasAssignment
    /\ result.routes # <<>>
    /\ result.dropped_locations # <<>>

\* C2 as stated: in every route of every result, the load after any prefix
\* of the stops is at most the capacity of the vehicle driving the route.
C2_LoadWithinCapacity_Always ==
    Returned =>
        \A r \in 1..Len(result.routes) :
            \A k \in 1..Len(result.routes[r].stops) :
                RouteLoad(SubSeq(result.routes[r].stops, 1, k))
                    <= vehicles[VehicleOf(result.routes[r])].capacity

\* C2 amended: when use_capacity is set, the load after any prefix of a
\* route's stops, and so the reported total_load, is at most the capacity
\* of the vehicle driving the route.
C2_LoadWithinCapacity ==
    (Returned /\ config.use_capacity) =>
        \A r \in 1..Len(result.routes) :
            /\ result.routes[r].total_load
                   <= vehicles[VehicleOf(result.routes[r])].capacity
            /\ \A k \in 1..Len(result.routes[r].stops) :
                   RouteLoad(SubSeq(result.routes[r].stops, 1, k))
                       <= vehicles[VehicleOf(result.routes[r])].capacity

\* A capacity-checked route of two stops that fills its vehicle, beside a
\* stop the capacity left out.
C2_Witness ==
    /\ Returned
    /\ config.use_capacity
    /\ \E r \in 1..Len(result.routes) :
        /\ Len(result.routes[r].stops) = 2
        /\ result.routes[r].total_load = vehicles[VehicleOf(result.routes[r])].capacity

\* Minutes of travel between two locations: what the time matrix holds when
\* the caller passes one.
TravelMinutes(i, j) == MeridianMatrix(locations)[i][j]

Earliest(i) ==
    IF locations[i].time_window_start = None THEN 0 ELSE locations[i].time_window_start

\* Earliest arrival at the k-th stop of a route that leaves the depot at
\* time 0: departure of the previous stop (the later of its arrival and its
\* earliest time, plus its service time) plus the travel time.
RECURSIVE Arrival(_, _)
Arrival(stops, k) ==
    IF k = 1 THEN TravelMinutes(0, stops[1])
    ELSE Max2(Arrival(stops, k - 1), Earliest(stops[k - 1]))
         + locations[stops[k - 1]].service_time
         + TravelMinutes(stops[k - 1], stops[k])

\* C3: with use_time_windows set, the arrival at every routed stop that
\* declares a latest time is at most that latest time.
C3_ArrivalWithinLatest ==
    (Returned /\ config.use_time_windows) =>
        \A r \in 1..Len(result.routes) :
            \A k \in 1..Len(result.routes[r].stops) :
                LET i == result.routes[r].stops[k]
                IN  locations[i].time_window_end # None =>
                        Arrival(result.routes[r].stops, k) <= locations[i].time_window_end

\* C4: the objective of the assignment solve extracts is at most the
\* objective of the first solution the construction phase produced.
C4_NeverRegresses ==
    (Returned /\ HasAssignment) => Objective(solution) <= Objective(first)

\* The search ended on a solution worse than the constructed one, and solve
\* returned an assignment all the same.
C4_Witness ==
    /\ Returned
    /\ HasAssignment
    /\ Objective(cur) > Objective(first)

\* solve has a step to take: the construction (whose only condition is that
\* the empty assignment is feasible), the no-solution return, a search
\* iteration or the return of the search.
CanProceed ==
    \/ pc = "start" /\ (Feasible(EmptyRoutes) \/ ENABLED SolveNoSolution)
    \/ pc = "search" /\ (\/ ENABLED LocalSearchImprove
                         \/ ENABLED MetaheuristicEscape
                         \/ ENABLED SolveReturn)

RECURSIVE AllStopIds(_)
AllStopIds(i) ==
    IF i >= NumLocations THEN <<>> ELSE <<locations[i].id>> \o AllStopIds(i + 1)

\* C6: solve ends by returning a VRPSolution, never by an error; when the
\* search yields no assignment, the routes are empty, the totals zero and
\* every non-depot location id is in dropped_locations.
C6_AlwaysReturnsSolution ==
    /\ pc \in {"start", "search", "returned"}
    /\ Returned =>
        /\ DOMAIN result = {"routes", "total_distance", "total_time",
                            "dropped_locations", "computation_time_ms"}
        /\ (~HasAssignment) =>
            /\ result.routes = <<>>
            /\ result.total_distance = 0
            /\ result.total_time = 0
            /\ result.dropped_locations = AllStopIds(1)

\* A return without an assignment, with two locations to drop.
C6_Witness ==
    /\ Returned
    /\ ~HasAssignment
    /\ Len(result.dropped_locations) = 2

\* The capacity dimension is on and the demand of stop i exceeds the
\* capacity of every vehicle: no vehicle has a feasible place for it.
OverCapacity(i) ==
    /\ config.use_capacity
    /\ \A v \in 1..NumVehicles : locations[i].demand > vehicles[v].capacity

\* C7: for every marking of stops as mandatory, a mandatory stop whose
\* demand exceeds every vehicle's capacity makes solve fail with an
\* Infeasible error naming the stop, instead of a result that drops it.
\* Location has no field for the marking, so solve ends the same way under
\* every marking.
C7_MandatoryInfeasible ==
    \A mandatory \in SUBSET Stops :
        \A i \in mandatory :
            (pc \notin {"start", "search"} /\ OverCapacity(i)) =>
                /\ pc = "raised"
                /\ result = [error |-> "Infeasible", stop |-> locations[i].id]

\* C8: one depot and one stop whose demand exceeds every vehicle's
\* capacity, with the capacity dimension on: the stop is in
\* dropped_locations and no route is reported.
C8_OverCapacityStopDropped ==
    (/\ Returned
     /\ NumLocations = 2
     /\ OverCapacity(1)) =>
        /\ result.dropped_locations = <<locations[1].id>>
        /\ result.routes = <<>>

\* The scenario of C8 with an assignment found, in a fleet of two vehicles.
C8_Witness ==
    /\ Returned
    /\ HasAssignment
    /\ NumLocations = 2
    /\ NumVehicles = 2
    /\ OverCapacity(1)

\* The window of stop i, if it declares one, can be met by a vehicle driving
\* straight from the depot.
WindowReachable(i) ==
    locations[i].time_window_end # None =>
        locations[0].service_time + TravelMinutes(0, i) <= locations[i].time_window_end

\* C9, on a depot that keeps Location's default demand of 1: one depot, one
\* stop whose demand fits the single vehicle's capacity and whose window is
\* reachable (and within the vehicle's distance range): the result has
\* exactly one route, serving the stop, and nothing dropped.
C9_SingleStopServed ==
    (/\ Returned
     /\ NumLocations = 2
     /\ locations[0].demand = 1
     /\ NumVehicles = 1
     /\ locations[1].demand <= vehicles[1].capacity
     /\ WindowReachable(1)
     /\ DistanceOK(<<1>>)) =>
        /\ Len(result.routes) = 1
        /\ result.routes[1].stops = <<1>>
        /\ result.dropped_locations = <<>>

\* Stops a and b both declare windows that no single vehicle can meet:
\* the windows do not overlap and the travel between the stops is longer
\* than the gap, whichever stop comes first.
Incompatible(a, b) ==
    /\ HasRange(a) /\ HasRange(b)
    /\ locations[a].time_window_end < locations[b].time_window_start
    /\ TravelMinutes(a, b) > locations[b].time_window_start - locations[a].time_window_end
    /\ locations[a].time_window_start + TravelMinutes(a, b) > locations[b].time_window_end

\* C10: one vehicle, two stops with incompatible windows, use_time_windows
\* set: at least one of the two is dropped and no route visits both.
C10_IncompatibleWindows ==
    (/\ Returned
     /\ NumVehicles = 1
     /\ NumLocations = 3
     /\ config.use_time_windows
     /\ Incompatible(1, 2)) =>
        /\ result.dropped_locations # <<>>
        /\ \A r \in 1..Len(result.routes) : Len(result.routes[r].stops) < 2

(***************************************************************************)
(* Validation of the instance, and calculate_distance_matrix.              *)
(***************************************************************************)
\* A location the problem model is specified to refuse: a negative demand,
\* or a declared time window whose earliest is after its latest.
InvalidLocation(loc) ==
    \/ loc.demand < 0
    \/ /\ loc.time_window_start # None
       /\ loc.time_window_end # None
       /\ loc.time_window_start > loc.time_window_end

InvalidRequest ==
    \E k \in 1..Len(request.locations) : InvalidLocation(request.locations[k])

\* C11: a request that lists a location with a negative demand or with a
\* time window whose earliest is after its latest is refused before any
\* search starts: the call never gets past raising an error.
C11_InvalidInstanceRejected ==
    (entry = "optimize_routes" /\ InvalidRequest) => pc \in {"called", "raised"}

\* C12: fewer than 2 locations never reach matrix construction or the
\* solver: a direct call of calculate_distance_matrix with fewer than 2
\* locations does not return a matrix, and optimize_routes with fewer than 2
\* locations raises before it builds a matrix or calls solve.
C12_FewerThanTwoRejected ==
    /\ (entry = "calculate_distance_matrix" /\ NumLocations < 2)
           => pc # "matrix_returned"
    /\ (entry = "optimize_routes" /\ Len(request.locations) < 2)
           => (pc \in {"called", "raised"} /\ distance_matrix = NoMatrix)

\* The endpoint's half of C12, which the code does satisfy.
OptimizeRejectsShortRequest ==
    (entry = "optimize_routes" /\ Len(request.locations) < 2)
        => (pc \in {"called", "raised"} /\ distance_matrix = NoMatrix)

\* A matrix has been built from the current locations.
MatrixBuilt ==
    \/ pc = "matrix_returned"
    \/ entry = "optimize_routes" /\ pc \notin {"called", "raised"}

\* C14: the matrix calculate_distance_matrix returns for n locations is
\* n x n, every entry is a non-negative integer, every diagonal entry is 0
\* and the entry at [i][j] equals the entry at [j][i].
C14_MatrixShape ==
    MatrixBuilt =>
        LET n == NumLocations
            m == distance_matrix
        IN  /\ DOMAIN m = 0..(n - 1)
            /\ \A i \in 0..(n - 1) :
                /\ DOMAIN m[i] = 0..(n - 1)
                /\ m[i][i] = 0
                /\ \A j \in 0..(n - 1) : m[i][j] \in Nat /\ m[i][j] = m[j][i]

\* A matrix of three locations whose off-diagonal entries are not all equal
\* (1.5 m, 2.7 m and 1.2 m of arc).
C14_Witness ==
    /\ pc = "matrix_returned"
    /\ NumLocations = 3
    /\ distance_matrix[0][1] = 1
    /\ distance_matrix[0][2] = 2
    /\ distance_matrix[2][1] = 1

(***************************************************************************)
(* The objective and the totals of the extracted result.                   *)
(***************************************************************************)
\* C15: the objective of the assignment solve returns is the sum of the
\* distance-matrix arc costs of the reported routes plus the same penalty
\* for every dropped non-depot location, and the depot is never charged.
C15_ObjectiveIsArcsPlusPenalties ==
    (Returned /\ HasAssignment) =>
        /\ Objective(solution)
             = result.total_distance + penalty * Len(result.dropped_locations)
        /\ 0 \notin Dropped(solution)
        /\ locations[0].id \notin {result.dropped_locations[k] :
                                     k \in 1..Len(result.dropped_locations)}

\* A result with a route and with the second stop dropped.
C15_Witness ==
    /\ Returned
    /\ HasAssignment
    /\ result.total_distance > 0
    /\ result.dropped_locations = <<LocId(2)>>

\* Arc costs of the walk from prev through the stops in rest to the end node.
RECURSIVE WalkCostFrom(_, _)
WalkCostFrom(prev, rest) ==
    IF rest = <<>> THEN distance_matrix[prev][0]
    ELSE distance_matrix[prev][Head(rest)] + WalkCostFrom(Head(rest), Tail(rest))

\* Demands of the first k stops of a stop list.
RECURSIVE DemandOfFirst(_, _)
DemandOfFirst(stops, k) ==
    IF k = 0 THEN 0 ELSE DemandOfFirst(stops, k - 1) + locations[stops[k]].demand

\* total_distance of the first k reported routes.
RECURSIVE DistanceOfFirst(_, _)
DistanceOfFirst(rs, k) ==
    IF k = 0 THEN 0 ELSE DistanceOfFirst(rs, k - 1) + rs[k].total_distance

\* C16: in every result, a route's total_distance is the sum of the arc
\* costs along its walk from the start through its stops to the end, its
\* total_load is the sum of the demands of its stops, and the solution's
\* total_distance is the sum of the routes' total_distance.
C16_TotalsAreSums ==
    Returned =>
        /\ \A k \in 1..Len(result.routes) :
            LET r == result.routes[k]
            IN  /\ r.total_distance = WalkCostFrom(0, r.stops)
                /\ r.total_load = DemandOfFirst(r.stops, Len(r.stops))
        /\ result.total_distance = DistanceOfFirst(result.routes, Len(result.routes))

\* Two reported routes of different distance and load.
C16_Witness ==
    /\ Returned
    /\ \E k1, k2 \in 1..Len(result.routes) :
        /\ result.routes[k1].total_distance > result.routes[k2].total_distance
        /\ result.routes[k1].total_load < result.routes[k2].total_load
        /\ result.routes[k2].total_distance > 0

(***************************************************************************)
(* The instance across a call of solve.                                    *)
(***************************************************************************)
\* C19: solve treats its instance as read-only: no step of a call changes
\* locations, vehicles, the distance matrix, the time matrix or the
\* solver's config, so they are the same after solve returns as before.
C19_InstanceReadOnly ==
    [][/\ locations' = locations
       /\ vehicles' = vehicles
       /\ distance_matrix' = distance_matrix
       /\ time_matrix' = time_matrix
       /\ config' = config]_vars

\* solve has returned routes for a call that passed no time matrix.
C19_Witness ==
    /\ Returned
    /\ HasAssignment
    /\ time_matrix = NoMatrix
    /\ Len(result.routes) = NumVehicles
    /\ NumVehicles = 2

\* The bound C20 gives a route: the vehicle's max_distance when it sets
\* one, the ceiling of the Distance dimension otherwise.
DistanceBound(v) ==
    IF vehicles[v].max_distance # None THEN vehicles[v].max_distance ELSE MaxDistance

\* C20: the total distance of every route solve returns is at most its
\* vehicle's max_distance when the vehicle sets one, and at most the
\* default ceiling otherwise.
C20_RouteWithinMaxDistance ==
    Returned =>
        \A k \in 1..Len(result.routes) :
            result.routes[k].total_distance
                <= DistanceBound(VehicleOf(result.routes[k]))

\* The half of C20 the Distance dimension does enforce.
RouteWithinCeiling ==
    Returned =>
        \A k \in 1..Len(result.routes) : result.routes[k].total_distance <= MaxDistance

(***************************************************************************)
(* The depot's demand and the endpoints of a route.                        *)
(***************************************************************************)
\* The load the Capacity dimension holds against the vehicle at the end of
\* a route with the given stops.
LoadAgainstCapacity(stops) == CapacityCumul(Path(stops), Len(Path(stops)))

\* C21: the depot contributes zero demand: the load that counts against a
\* vehicle's capacity on a route is the sum of the demands of the route's
\* stops, the total_load the result reports for it.
C21_DepotContributesNoDemand ==
    (Returned /\ config.use_capacity) =>
        \A k \in 1..Len(result.routes) :
            LoadAgainstCapacity(result.routes[k].stops) = result.routes[k].total_load

\* The node a vehicle's route is specified to end at.
EndOf(v) ==
    IF vehicles[v].end_location # None THEN vehicles[v].end_location
    ELSE vehicles[v].start_location

\* C22: the route of each vehicle begins at the vehicle's start_location
\* and ends at its end_location when one is given, at its start_location
\* otherwise.
C22_RouteEndpoints ==
    (Returned /\ HasAssignment) =>
        \A v \in 1..NumVehicles :
            LET path == Path(solution[v])
            IN  /\ path[1] = vehicles[v].start_location
                /\ path[Len(path)] = EndOf(v)

(***************************************************************************)
(* The best solution observed, and the dropped stops.                      *)
(***************************************************************************)
\* C23: the solution solve returns is the lowest-objective solution observed
\* at any iteration, not the last one evaluated: during the search the best
\* solution is never worse than the current or the first one and never
\* gets worse, and the return hands out that best solution.
C23_BestObservedReturned ==
    /\ [](pc = "search" =>
            /\ Objective(best) <= Objective(cur)
            /\ Objective(best) <= Objective(first))
    /\ [][(pc = "search" /\ pc' = "search") => Objective(best') <= Objective(best)]_vars
    /\ [][(pc = "search" /\ pc' = "returned") => solution' = best]_vars

\* The search improved on the first solution, then accepted a worse one,
\* and solve returned the better one.
C23_Witness ==
    /\ Returned
    /\ HasAssignment
    /\ Objective(solution) < Objective(first)
    /\ Objective(cur) > Objective(solution)

\* A dropped stop of the returned assignment has no feasible insertion into
\* the returned routes, or its cheapest one adds more arc cost than the
\* penalty.
DropsAreForced ==
    (Returned /\ HasAssignment) =>
        \A c \in Candidates(solution) : InsertionCost(solution, c) > penalty

\* The penalty is at least one order of magnitude above every entry of the
\* distance matrix of the instance.
PenaltyDominatesMatrix ==
    \A i \in DOMAIN distance_matrix : \A j \in DOMAIN distance_matrix[i] :
        penalty >= 10 * distance_matrix[i][j]

NearestMeter(lat1, lat2) == (Abs(lat2 - lat1) + 500) \div 1000

\* C25: each off-diagonal entry of the matrix is the great-circle distance
\* in meters rounded to the nearest integer, not truncated.
C25_RoundedToNearest ==
    MatrixBuilt =>
        \A i \in DOMAIN distance_matrix : \A j \in DOMAIN distance_matrix :
            i # j => distance_matrix[i][j]
                       = NearestMeter(locations[i].latitude, locations[j].latitude)

\* What the code does: the fraction of a meter is dropped.
MatrixEntriesTruncated ==
    MatrixBuilt =>
        \A i \in DOMAIN distance_matrix : \A j \in DOMAIN distance_matrix :
            i # j => /\ 1000 * distance_matrix[i][j]
                          <= Abs(locations[j].latitude - locations[i].latitude)
                     /\ Abs(locations[j].latitude - locations[i].latitude)
                          < 1000 * (distance_matrix[i][j] + 1)

\* C26: the result reports at most one route per vehicle, only for the
\* vehicles that serve a stop, in vehicle-index order; the stop list of a
\* reported route is not empty, does not contain the depot and lists the
\* stops in the order the vehicle visits them.
C26_RoutesPerVehicle ==
    Returned =>
        LET rs == result.routes
        IN  /\ \A k \in 1..Len(rs) :
                /\ rs[k].stops # <<>>
                /\ \A j \in 1..Len(rs[k].stops) : rs[k].stops[j] \in Stops
            /\ \A k1, k2 \in 1..Len(rs) : k1 < k2 => VehicleOf(rs[k1]) < VehicleOf(rs[k2])
            /\ HasAssignment =>
                /\ \A k \in 1..Len(rs) : rs[k].stops = solution[VehicleOf(rs[k])]
                /\ \A v \in 1..NumVehicles :
                    solution[v] # <<>> => \E k \in 1..Len(rs) : VehicleOf(rs[k]) = v
            /\ (~HasAssignment) => rs = <<>>

\* Of two vehicles only the second serves stops, two of them.
C26_Witness ==
    /\ Returned
    /\ NumVehicles = 2
    /\ Len(result.routes) = 1
    /\ result.routes[1].vehicle_id = vehicles[2].id
    /\ Len(result.routes[1].stops) = 2

(***************************************************************************)
(* The time estimates of the result.                                       *)
(***************************************************************************)
\* Every reported route's total_time is its total_distance // 50.
RouteTimesEstimated ==
    \A k \in 1..Len(result.routes) :
        result.routes[k].total_time
            = result.routes[k].total_distance \div MetersPerMinute

\* C27: the solution's total_time equals the sum of the reported routes'
\* total_time, each being the estimate distance // 50, per route for the
\* routes and from the summed distance for the solution.
C27_TotalTimeIsSum ==
    Returned =>
        /\ RouteTimesEstimated
        /\ result.total_time = result.total_distance \div MetersPerMinute
        /\ result.total_time = SumTimes(result.routes)

\* C27 amended: the solution's total_time is the estimate total_distance //
\* 50 of the summed distance; it is at least the sum of the routes'
\* total_time and exceeds it by less than the number of reported routes.
C27_TotalTimeFromSummedDistance ==
    Returned =>
        /\ RouteTimesEstimated
        /\ result.total_time = result.total_distance \div MetersPerMinute
        /\ result.total_time >= SumTimes(result.routes)
        /\ result.total_time - SumTimes(result.routes)
               <= Max2(Len(result.routes), 1) - 1

\* Two routes of 30 m each: 0 minutes each, 1 minute for the solution.
C27_Witness ==
    /\ Returned
    /\ Len(result.routes) = 2
    /\ result.total_time = 1
    /\ SumTimes(result.routes) = 0

(***************************************************************************)
(* The search parameters: _get_first_solution_strategy and                 *)
(* _get_metaheuristic, called by solve one after the other.                *)
(***************************************************************************)
\* Members of routing_enums_pb2.FirstSolutionStrategy and
\* routing_enums_pb2.LocalSearchMetaheuristic.
FirstSolutionStrategy(member) == [enum |-> "FirstSolutionStrategy", member |-> member]

LocalSearchMetaheuristic(member) == [enum |-> "LocalSearchMetaheuristic", member |-> member]

strategies ==
    ("AUTOMATIC" :> FirstSolutionStrategy("AUTOMATIC"))
    @@ ("PATH_CHEAPEST_ARC" :> FirstSolutionStrategy("PATH_CHEAPEST_ARC"))
    @@ ("PATH_MOST_CONSTRAINED_ARC" :> FirstSolutionStrategy("PATH_MOST_CONSTRAINED_ARC"))
    @@ ("SAVINGS" :> FirstSolutionStrategy("SAVINGS"))
    @@ ("SWEEP" :> FirstSolutionStrategy("SWEEP"))
    @@ ("CHRISTOFIDES" :> FirstSolutionStrategy("CHRISTOFIDES"))

metaheuristics ==
    ("AUTOMATIC" :> LocalSearchMetaheuristic("AUTOMATIC"))
    @@ ("GREEDY_DESCENT" :> LocalSearchMetaheuristic("GREEDY_DESCENT"))
    @@ ("GUIDED_LOCAL_SEARCH" :> LocalSearchMetaheuristic("GUIDED_LOCAL_SEARCH"))
    @@ ("SIMULATED_ANNEALING" :> LocalSearchMetaheuristic("SIMULATED_ANNEALING"))
    @@ ("TABU_SEARCH" :> LocalSearchMetaheuristic("TABU_SEARCH"))

\* strategies.get(name, FirstSolutionStrategy.PATH_CHEAPEST_ARC), with the
\* fallback replaced by AUTOMATIC.
get_first_solution_strategy_Automatic(name) ==
    IF name \in DOMAIN strategies THEN strategies[name]
    ELSE FirstSolutionStrategy("AUTOMATIC")

get_first_solution_strategy(name) ==
    IF name \in DOMAIN strategies THEN strategies[name]
    ELSE FirstSolutionStrategy("PATH_CHEAPEST_ARC")

\* metaheuristics.get(name, LocalSearchMetaheuristic.GUIDED_LOCAL_SEARCH)
get_metaheuristic(name) ==
    IF name \in DOMAIN metaheuristics THEN metaheuristics[name]
    ELSE LocalSearchMetaheuristic("GUIDED_LOCAL_SEARCH")

\* Names a caller may put in the config: the recognized ones, a name of the
\* other table, a lower-case name, the empty string.
StrategyNames ==
    DOMAIN strategies \cup {"TABU_SEARCH", "path_cheapest_arc", ""}

MetaheuristicNames ==
    DOMAIN metaheuristics \cup {"SAVINGS", "tabu_search", ""}

\* The variables the search of solve uses, before any search.
SearchIdle ==
    /\ first = NoAssignment
    /\ cur = NoAssignment
    /\ best = NoAssignment
    /\ solution = NoAssignment
    /\ clock = 0

InitParameters ==
    \E f \in StrategyNames, m \in MetaheuristicNames :
        /\ config = [VRPConfig(SearchTimeLimit_Default, TRUE, TRUE) EXCEPT
                        !.first_solution_strategy = f,
                        !.local_search_metaheuristic = m]
        /\ entry = "solve"
        /\ request = NoRequest
        /\ locations = <<>>
        /\ vehicles = <<>>
        /\ distance_matrix = NoMatrix
        /\ time_matrix = NoMatrix
        /\ pc = "parameters"
        /\ SearchIdle
        /\ result = None

\* search_parameters.first_solution_strategy = self._get_first_solution_strategy()
SetFirstSolutionStrategy ==
    /\ pc = "parameters"
    /\ result' = [first_solution_strategy |->
                      get_first_solution_strategy(config.first_solution_strategy)]
    /\ pc' = "strategy_set"
    /\ UNCHANGED <<inputs, call, first, cur, best, solution, clock>>

\* search_parameters.local_search_metaheuristic = self._get_metaheuristic()
SetMetaheuristic ==
    /\ pc = "strategy_set"
    /\ result' = [first_solution_strategy |-> result.first_solution_strategy,
                  local_search_metaheuristic |->
                      get_metaheuristic(config.local_search_metaheuristic)]
    /\ pc' = "parameters_set"
    /\ UNCHANGED <<inputs, call, first, cur, best, solution, clock>>

NextParameters == SetFirstSolutionStrategy \/ SetMetaheuristic

SpecParameters == InitParameters /\ [][NextParameters]_vars

\* C28: a strategy or metaheuristic name outside the table is not an error:
\* the search parameters are always set, to PATH_CHEAPEST_ARC and
\* GUIDED_LOCAL_SEARCH for an unrecognized name and to the member of the
\* same name for a recognized one.
C28_UnknownNamesFallBack ==
    /\ pc = "parameters" => ENABLED SetFirstSolutionStrategy
    /\ pc = "strategy_set" => ENABLED SetMetaheuristic
    /\ pc = "parameters_set" =>
        LET f == config.first_solution_strategy
            m == config.local_search_metaheuristic
        IN  /\ result.first_solution_strategy.enum = "FirstSolutionStrategy"
            /\ result.first_solution_strategy.member
                 = (IF f \in {"AUTOMATIC", "PATH_CHEAPEST_ARC",
                              "PATH_MOST_CONSTRAINED_ARC", "SAVINGS", "SWEEP",
                              "CHRISTOFIDES"}
                    THEN f ELSE "PATH_CHEAPEST_ARC")
            /\ result.local_search_metaheuristic.enum = "LocalSearchMetaheuristic"
            /\ result.local_search_metaheuristic.member
                 = (IF m \in {"AUTOMATIC", "GREEDY_DESCENT", "GUIDED_LOCAL_SEARCH",
                              "SIMULATED_ANNEALING", "TABU_SEARCH"}
                    THEN m ELSE "GUIDED_LOCAL_SEARCH")

\* A metaheuristic's name given as the strategy, with a recognized
\* metaheuristic that is not the default.
C28_Witness ==
    /\ pc = "parameters_set"
    /\ config.first_solution_strategy = "TABU_SEARCH"
    /\ config.local_search_metaheuristic = "TABU_SEARCH"
    /\ result.first_solution_strategy.member = "PATH_CHEAPEST_ARC"

(***************************************************************************)
(* Fraud detection: FraudDetectionEngine.analyze.                          *)
(*                                                                         *)
(* Severities and confidences are kept in hundredths (0.7 is 70), amounts  *)
(* in naira, timestamps in minutes of the day, latitudes in whole degrees  *)
(* of one meridian.                                                        *)
(***************************************************************************)
FraudSignal(signal_name, signal_type, severity) ==
    [signal_name |-> signal_name, signal_type |-> signal_type, severity |-> severity]

Transaction(amount, timestamp, device_id, lat) ==
    [amount |-> amount, timestamp |-> timestamp, device_id |-> device_id,
     location |-> lat]

CustomerProfile(typical_daily, age, flags, last) ==
    [avg_transaction_amount |-> 10000, max_transaction_amount |-> 100000,
     typical_transaction_count_daily |-> typical_daily,
     typical_locations |-> <<6, 9>>, registered_devices |-> {"dev-known"},
     account_age_days |-> age, previous_fraud_flags |-> flags,
     last_transaction |-> last]

\* R * c in km for two points of one meridian: 6371 * pi / 180 km per degree.
haversine_distance_km(lat1, lat2) == (111195 * Abs(lat2 - lat1)) \div 1000

\* mock_daily_count = 5
check_velocity(txn, profile) ==
    (IF profile.typical_transaction_count_daily > 0
        /\ 5 > profile.typical_transaction_count_daily * 3
     THEN <<FraudSignal("high_velocity", "velocity", 70)>> ELSE <<>>)
    \o (IF profile.last_transaction # None
           /\ txn.timestamp - profile.last_transaction < 1
        THEN <<FraudSignal("rapid_succession", "velocity", 50)>> ELSE <<>>)

check_amount_anomaly(txn, profile) ==
    (IF txn.amount > profile.max_transaction_amount * 2
     THEN <<FraudSignal("amount_spike", "anomaly", 80)>>
     ELSE IF 2 * txn.amount > profile.max_transaction_amount * 3
     THEN <<FraudSignal("high_amount", "anomaly", 40)>>
     ELSE <<>>)
    \o (IF profile.avg_transaction_amount > 0
           /\ txn.amount > 5 * profile.avg_transaction_amount
        THEN <<FraudSignal("amount_deviation", "anomaly", 60)>> ELSE <<>>)

\* min over the typical locations of the distance to the transaction.
RECURSIVE MinDistance(_, _, _)
MinDistance(lat, locs, k) ==
    IF k = Len(locs) THEN haversine_distance_km(lat, locs[k])
    ELSE Min2(haversine_distance_km(lat, locs[k]), MinDistance(lat, locs, k + 1))

check_location(txn, profile) ==
    IF txn.location # None /\ profile.typical_locations # <<>>
       /\ MinDistance(txn.location, profile.typical_locations, 1) > 100
    THEN <<FraudSignal("unusual_location", "anomaly", 60)>> ELSE <<>>

check_device(txn, profile) ==
    IF txn.device_id # "" /\ txn.device_id \notin profile.registered_devices
    THEN <<FraudSignal("new_device", "rule", 30)>> ELSE <<>>

\* hour = txn.timestamp.hour
check_timing(txn, profile) ==
    IF 2 <= txn.timestamp \div 60 /\ txn.timestamp \div 60 <= 5
    THEN <<FraudSignal("unusual_hour", "anomaly", 30)>> ELSE <<>>

\* severity = 0.5 * min(profile.previous_fraud_flags, 3)
apply_rules(txn, profile) ==
    (IF profile.account_age_days < 7 /\ txn.amount > 100000
     THEN <<FraudSignal("new_account_high_value", "rule", 70)>> ELSE <<>>)
    \o (IF profile.previous_fraud_flags > 0
        THEN <<FraudSignal("previous_flags", "rule",
                           50 * Min2(profile.previous_fraud_flags, 3))>>
        ELSE <<>>)
    \o (IF txn.amount > 50000 /\ txn.amount % 10000 = 0
        THEN <<FraudSignal("round_amount", "rule", 20)>> ELSE <<>>)

RECURSIVE SumSeverity(_)
SumSeverity(signals) ==
    IF signals = <<>> THEN 0 ELSE Head(signals).severity + SumSeverity(Tail(signals))

\* min(100, sum(s.severity * 100) / len(signals) * 1.5), or 5.0 without
\* signals, as the fraction num / den.
risk_score(signals) ==
    IF signals = <<>> THEN [num |-> 5, den |-> 1]
    ELSE IF 3 * SumSeverity(signals) > 100 * 2 * Len(signals)
    THEN [num |-> 100, den |-> 1]
    ELSE [num |-> 3 * SumSeverity(signals), den |-> 2 * Len(signals)]

\* THRESHOLDS: the first level with low <= score < high, else CRITICAL.
determine_risk_level(score) ==
    IF 0 <= score.num /\ score.num < 25 * score.den THEN "low"
    ELSE IF 25 * score.den <= score.num /\ score.num < 50 * score.den THEN "medium"
    ELSE IF 50 * score.den <= score.num /\ score.num < 75 * score.den THEN "high"
    ELSE "critical"

\* A signal of severity >= 0.9 forces BLOCK, else ACTIONS[risk_level].
determine_action(risk_level, signals) ==
    IF \E k \in 1..Len(signals) : signals[k].severity >= 90 THEN "block"
    ELSE CASE risk_level = "low" -> "allow"
           [] risk_level = "medium" -> "alert"
           [] risk_level = "high" -> "challenge"
           [] OTHER -> "block"

calculate_confidence(signals) ==
    IF signals = <<>> THEN 95
    ELSE IF Len(signals) >= 5 THEN 95
    ELSE IF Len(signals) >= 3 THEN 85
    ELSE IF Len(signals) >= 2 THEN 75
    ELSE 65

FraudAssessment(txn, profile) ==
    LET signals == check_velocity(txn, profile) \o check_amount_anomaly(txn, profile)
                   \o check_location(txn, profile) \o check_device(txn, profile)
                   \o check_timing(txn, profile) \o apply_rules(txn, profile)
        score == risk_score(signals)
        level == determine_risk_level(score)
    IN  [risk_score |-> score, risk_level |-> level,
         action |-> determine_action(level, signals), signals |-> signals,
         confidence |-> calculate_confidence(signals)]

InitFraud ==
    \E amount \in {1000, 60000, 160000, 250000}, hour \in {3, 12},
       recent \in BOOLEAN, device \in {"dev-known", "dev-new"}, lat \in {6, 8},
       typical \in {1, 2}, age \in {3, 30}, flags \in 0..MaxFraudFlags :
        /\ request = [transaction |-> Transaction(amount, hour * 60, device, lat),
                      profile |-> CustomerProfile(typical, age, flags,
                                     IF recent THEN hour * 60 ELSE None)]
        /\ entry = "analyze"
        /\ pc = "called"
        /\ locations = <<>>
        /\ vehicles = <<>>
        /\ distance_matrix = NoMatrix
        /\ time_matrix = NoMatrix
        /\ config = VRPConfig(SearchTimeLimit_Default, TRUE, TRUE)
        /\ SearchIdle
        /\ result = None

Analyze ==
    /\ entry = "analyze"
    /\ pc = "called"
    /\ result' = FraudAssessment(request.transaction, request.profile)
    /\ pc' = "assessed"
    /\ UNCHANGED <<inputs, call, first, cur, best, solution, clock>>

NextFraud == Analyze

SpecFraud == InitFraud /\ [][NextFraud]_vars

\* C29: every fraud signal analyze produces has a severity in 0..1, for
\* every transaction and profile, whatever the number of previous fraud
\* flags, and the composite risk_score stays within 0..100.
C29_SeverityWithinRange ==
    pc = "assessed" =>
        /\ \A k \in 1..Len(result.signals) :
            /\ result.signals[k].severity >= 0
            /\ result.signals[k].severity <= 100
        /\ result.risk_score.num >= 0
        /\ result.risk_score.num <= 100 * result.risk_score.den

\* What holds of the code: min(100, ...) keeps the risk_score in 0..100.
RiskScoreWithinRange ==
    pc = "assessed" =>
        /\ result.risk_score.num >= 0
        /\ result.risk_score.num <= 100 * result.risk_score.den

(***************************************************************************)
(* Credit scoring: determine_risk_band, calculate_credit_limit and         *)
(* make_decision, as calculate_credit_score calls them.                    *)
(*                                                                         *)
(* Amounts are whole naira and multiples of 8, so that the halves and the  *)
(* three quarters the code takes are whole too.                            *)
(***************************************************************************)
\* RISK_BANDS, in the order of the dict; a score in no band is UNSCOREABLE.
determine_risk_band(score) ==
    IF 750 <= score /\ score <= 850 THEN "prime"
    ELSE IF 680 <= score /\ score <= 749 THEN "near_prime"
    ELSE IF 580 <= score /\ score <= 679 THEN "subprime"
    ELSE IF 500 <= score /\ score <= 579 THEN "deep_subprime"
    ELSE IF 300 <= score /\ score <= 499 THEN "unscoreable"
    ELSE "unscoreable"

\* avg_monthly_gmv * LIMIT_MULTIPLIERS[risk_band]
MaxLimit(risk_band, avg_monthly_gmv) ==
    CASE risk_band = "prime" -> avg_monthly_gmv * 3
      [] risk_band = "near_prime" -> avg_monthly_gmv * 2
      [] risk_band = "subprime" -> avg_monthly_gmv
      [] risk_band = "deep_subprime" -> avg_monthly_gmv \div 2
      [] OTHER -> 0

\* max(0, max_limit - current_outstanding)
calculate_credit_limit(risk_band, avg_monthly_gmv, current_outstanding) ==
    Max2(0, MaxLimit(risk_band, avg_monthly_gmv) - current_outstanding)

Decision(decision, approved_amount) ==
    [decision |-> decision, approved_amount |-> approved_amount]

\* Near prime and prime approve the requested amount without looking at
\* the limit.
make_decision_Unchecked(score, risk_band, requested_amount, available_limit) ==
    IF risk_band = "unscoreable" THEN Decision("declined", 0)
    ELSE IF risk_band = "deep_subprime"
    THEN (IF requested_amount <= available_limit \div 2
          THEN Decision("conditional", Min2(requested_amount, available_limit \div 2))
          ELSE Decision("manual_review", 0))
    ELSE IF risk_band = "subprime"
    THEN (IF requested_amount <= (available_limit * 3) \div 4
          THEN Decision("approved", Min2(requested_amount, (available_limit * 3) \div 4))
          ELSE Decision("conditional", (available_limit * 3) \div 4))
    ELSE Decision("approved", requested_amount)

make_decision(score, risk_band, requested_amount, available_limit) ==
    IF risk_band = "unscoreable" THEN Decision("declined", 0)
    ELSE IF risk_band = "deep_subprime"
    THEN (IF requested_amount <= available_limit \div 2
          THEN Decision("conditional", Min2(requested_amount, available_limit \div 2))
          ELSE Decision("manual_review", 0))
    ELSE IF risk_band = "subprime"
    THEN (IF requested_amount <= (available_limit * 3) \div 4
          THEN Decision("approved", Min2(requested_amount, (available_limit * 3) \div 4))
          ELSE Decision("conditional", (available_limit * 3) \div 4))
    ELSE IF requested_amount <= available_limit
    THEN Decision("approved", requested_amount)
    ELSE Decision("conditional", available_limit)

InitCredit ==
    \E score \in {300, 450, 540, 600, 679, 700, 800, 850},
       gmv \in {0, 8000, 16000}, outstanding \in {0, 8000, 40000},
       requested \in {0, 2000, 6000, 8000, 48000, 64000} :
        /\ request = [score |-> score, avg_monthly_gmv |-> gmv,
                      current_outstanding |-> outstanding,
                      requested_amount |-> requested]
        /\ entry = "calculate_credit_score"
        /\ pc = "scored"
        /\ locations = <<>>
        /\ vehicles = <<>>
        /\ distance_matrix = NoMatrix
        /\ time_matrix = NoMatrix
        /\ config = VRPConfig(SearchTimeLimit_Default, TRUE, TRUE)
        /\ SearchIdle
        /\ result = None

\* risk band, credit limit and decision for a computed score.
DecideCredit ==
    /\ entry = "calculate_credit_score"
    /\ pc = "scored"
    /\ LET risk_band == determine_risk_band(request.score)
           credit_limit == calculate_credit_limit(risk_band, request.avg_monthly_gmv,
                                                  request.current_outstanding)
           made == make_decision(request.score, risk_band,
                                 request.requested_amount, credit_limit)
       IN  result' = [risk_band |-> risk_band, credit_limit |-> credit_limit,
                      decision |-> made.decision,
                      approved_amount |-> made.approved_amount]
    /\ pc' = "decided"
    /\ UNCHANGED <<inputs, call, first, cur, best, solution, clock>>

NextCredit == DecideCredit

SpecCredit == InitCredit /\ [][NextCredit]_vars

\* C30: make_decision never grants more than is available: whenever the
\* decision is APPROVED the approved amount is at most the available limit
\* and at most the requested amount, and the UNSCOREABLE band always yields
\* DECLINED with approved amount 0.
C30_NeverGrantsMoreThanAvailable ==
    pc = "decided" =>
        /\ result.decision = "approved" =>
            /\ result.approved_amount <= result.credit_limit
            /\ result.approved_amount <= request.requested_amount
        /\ result.risk_band = "unscoreable" =>
            /\ result.decision = "declined"
            /\ result.approved_amount = 0

\* A subprime request of exactly three quarters of the limit is approved in
\* full; the limit is what the outstanding balance leaves.
C30_Witness ==
    /\ pc = "decided"
    /\ result.risk_band = "subprime"
    /\ result.decision = "approved"
    /\ result.credit_limit = 8000
    /\ request.current_outstanding > 0
    /\ result.approved_amount = 6000

====
